---- MODULE Spec2Model ----
(***************************************************************************)
(* The response cache of the bot (resources/cache.rs) and the AniList      *)
(* accessor that owns one cache per entity kind (resources/anilist.rs).    *)
(*                                                                         *)
(* Every asynchronous call of the source is a small process: `pc` is the   *)
(* source line the task is suspended at, the tokio Mutex around the map is  *)
(* the variable `lock`, and an await that needs the outside world (the      *)
(* fetch closure, the remote AniList call) is a step of its own.            *)
(***************************************************************************)
EXTENDS Integers, FiniteSets, Sequences, TLC

\* ------------------------------------------------------------------ bounds
MaxKey == 2          \* keys / entity ids are 1..MaxKey
MaxVal == 2          \* payloads are 1..MaxVal
MaxCapacity == 1     \* a cache under test is built with a capacity in 1..MaxCapacity

\* ------------------------------------------------------------- constants
AniListCapacity == 50    \* Cache::with_capacity(50) in AniList::new

Tasks == {"A", "B"}
Keys == 1..MaxKey
Values == 1..MaxVal
Ids == {42}          \* the entity id asked of the accessor
Kinds == {"anime", "manga", "user", "char"}
CacheIds == {"cache"} \cup Kinds
DefaultLocale == "pt"
Langs == {"pt", "en"}
PrivateChats == {"user"}
Chats == PrivateChats \cup {"group"}
Users == {"u1", "u2"}
Tokens == {"tok1", "tok2"}
Anonymous == "anon"
NoTask == "none"

\* Option<V> and Result<V, Error>; Value(v) is a V handed back as it is
Value(v) == <<"Value", v>>
None == <<"None">>
Some(v) == <<"Some", v>>
Ok(v) == <<"Ok", v>>
Err(e) == <<"Err", e>>
ErrInvalidId == Err("InvalidId")
Unit == <<"Unit">>
NoRet == <<"NoRet">>

VARIABLES
    map,        \* map[c]: the HashMap of cache c, a function from its keys
    capacity,   \* capacity[c]: the capacity cache c was built with
    lock,       \* lock[c]: the task holding the Mutex of cache c, or NoTask
    remoteUp,   \* whether the remote source can answer
    lastWrite,  \* the task that made the most recent mutation of the cache under test
    pc,         \* pc[t]: where task t is suspended
    op,         \* op[t]: the operation task t is running
    cache,      \* cache[t]: the cache that operation works on
    key,        \* key[t]: its key argument
    val,        \* val[t]: its value argument, or the value its fetch produced
    look,       \* look[t]: what the lookup of the running call read
    fetches,    \* fetches[t]: fetch / remote invocations of the running call
    retry,      \* retry[t]: the call repeats a lookup of this task that just failed
    remote,     \* remote[t]: what the remote call of the running call resolved to
    ret,        \* ret[t]: what the call returned
    text,       \* the text handed to escape_html, a sequence of characters
    escaped,    \* what escape_html returned for it, NoRet before the call
    arc,        \* arc[t][c]: the map that field c of the handle task t holds points to
    current_locale, \* I18n.current_locale, the one String behind the Arc<Mutex<..>>
    language_code,  \* language_code[ch]: the language in the row of chat ch, "none" without a row
    chat,       \* chat[t]: the chat of the update task t is handling
    mwLocale,   \* mwLocale[t]: what UpdateChatLang passed to set_locale for that update
    said,       \* said[t]: the locale the handler's translate call translated to
    anilist_token, \* anilist_token[u]: the token in the row of user u, "none" without one
    clients,    \* AuthenticateAniList.clients: user id -> the client built for that user
    sender,     \* sender[t]: the sender of the update task t is handling, "none" without one
    user,       \* user[t]: the anilist_token of the row get_by_id returned to task t
    ani_client, \* ani_client[t]: ani.client of the accessor handed to the handler of task t
    data,       \* data[t]: the callback data of the query task t handles, split at whitespace
    presser,    \* presser[t]: the id of the user who pressed the button, 0 when there is no query
    alert,      \* alert[t]: the query was answered with the not_allowed alert
    edited,     \* edited[t]: the handler edited the message or replied to it
    callback,   \* the callback argument of gen_pagination_buttons, a sequence of characters
    page,       \* its page argument
    max_pages,  \* its max_pages argument
    buttons     \* what it returned, NoRet before the call

localeVars == <<current_locale, language_code, chat, mwLocale, said>>
authVars == <<anilist_token, clients, sender, user, ani_client>>
callbackVars == <<data, presser, alert, edited>>
pageVars == <<callback, page, max_pages, buttons>>
restVars == <<localeVars, authVars, callbackVars, pageVars>>
coreVars == <<map, capacity, arc, lock, remoteUp, lastWrite, text, escaped>>
taskVars == <<pc, op, cache, key, val, look, fetches, retry, remote, ret>>
vars == <<map, capacity, restVars, arc, lock, remoteUp, lastWrite, text, escaped,
          pc, op, cache, key, val, look, fetches, retry, remote, ret>>

\* ------------------------------------------------------- HashMap<K, V>
EmptyMap == [k \in {} |-> None]

\* Faulty variant: an insert that keeps the entry already there
MapInsertKeepFirst(m, k, v) ==
    IF k \in DOMAIN m THEN m
    ELSE [x \in DOMAIN m \cup {k} |-> IF x = k THEN v ELSE m[x]]

\* HashMap::insert: inserts or overwrites
MapInsert(m, k, v) ==
    [x \in DOMAIN m \cup {k} |-> IF x = k THEN v ELSE m[x]]

\* Faulty variant: a get that ignores its key
MapGetAny(m, k) ==
    IF DOMAIN m # {} THEN Some(m[CHOOSE x \in DOMAIN m : TRUE]) ELSE None

\* HashMap::get(key).cloned()
MapGet(m, k) ==
    IF k \in DOMAIN m THEN Some(m[k]) ELSE None

\* Faulty variant: a remove that clears the map
MapRemoveAll(m, k) == EmptyMap

\* HashMap::remove
MapRemove(m, k) ==
    [x \in DOMAIN m \ {k} |-> m[x]]

MapLen(m) == Cardinality(DOMAIN m)

\* ---------------------------------------------------------------- Cache
\* Cache::with_capacity(c): an empty map, built for at most c entries
WithCapacity(c) == [map |-> EmptyMap, capacity |-> c]

InitTasks ==
    /\ pc = [t \in Tasks |-> "idle"]
    /\ op = [t \in Tasks |-> "none"]
    /\ cache = [t \in Tasks |-> "none"]
    /\ key = [t \in Tasks |-> 0]
    /\ val = [t \in Tasks |-> 0]
    /\ look = [t \in Tasks |-> NoRet]
    /\ fetches = [t \in Tasks |-> 0]
    /\ retry = [t \in Tasks |-> FALSE]
    /\ remote = [t \in Tasks |-> NoRet]
    /\ ret = [t \in Tasks |-> NoRet]

InitShared ==
    /\ lock = [c \in CacheIds |-> NoTask]
    /\ remoteUp = TRUE
    /\ lastWrite = NoTask

\* A cache under test, built with some capacity; the accessor's caches are
\* built by AniList::new.
InitCaches ==
    \E c \in 1..MaxCapacity :
          /\ map = [x \in CacheIds |->
                       IF x = "cache" THEN WithCapacity(c).map
                       ELSE WithCapacity(AniListCapacity).map]
          /\ capacity = [x \in CacheIds |->
                       IF x = "cache" THEN WithCapacity(c).capacity
                       ELSE WithCapacity(AniListCapacity).capacity]

\* The handle built by Cache::new / AniList::new: every field has its own
\* map, Arc::new(Mutex::new(HashMap::new()))
Original == [c \in CacheIds |-> c]
NoHandle == [c \in CacheIds |-> "none"]

\* main.rs line 97: I18n::with_locale("pt"); no update is being handled
InitLocaleIdle ==
    /\ current_locale = DefaultLocale
    /\ language_code = [ch \in Chats |-> "none"]
    /\ chat = [t \in Tasks |-> "none"]
    /\ mwLocale = [t \in Tasks |-> "none"]
    /\ said = [t \in Tasks |-> "none"]

\* AuthenticateAniList::new (authenticate_anilist.rs lines 33-37): no client
\* is cached; no user has a token; no update is being handled
InitAuthIdle ==
    /\ anilist_token = [u \in Users |-> "none"]
    /\ clients = EmptyMap
    /\ sender = [t \in Tasks |-> "none"]
    /\ user = [t \in Tasks |-> "none"]
    /\ ani_client = [t \in Tasks |-> "none"]

\* No callback query is being handled
InitCallbackIdle ==
    /\ data = [t \in Tasks |-> <<>>]
    /\ presser = [t \in Tasks |-> 0]
    /\ alert = [t \in Tasks |-> FALSE]
    /\ edited = [t \in Tasks |-> FALSE]

\* gen_pagination_buttons has not been called
InitPageIdle ==
    /\ callback = <<>>
    /\ page = 0
    /\ max_pages = 0
    /\ buttons = NoRet

InitRest ==
    /\ InitLocaleIdle
    /\ InitAuthIdle
    /\ InitCallbackIdle
    /\ InitPageIdle

Init ==
    /\ InitCaches
    /\ InitRest
    /\ InitShared
    /\ InitTasks
    /\ text = <<>>
    /\ escaped = NoRet
    /\ arc = [t \in Tasks |-> Original]

\* A task starts a call: op o on cache c with key k (and value v)
Start(t, o, c, k, v, at) ==
    /\ pc[t] = "idle"
    /\ pc' = [pc EXCEPT ![t] = at]
    /\ op' = [op EXCEPT ![t] = o]
    /\ cache' = [cache EXCEPT ![t] = c]
    /\ key' = [key EXCEPT ![t] = k]
    /\ val' = [val EXCEPT ![t] = v]
    /\ UNCHANGED <<map, capacity, restVars, arc, text, escaped, lock, remoteUp, lastWrite, look, fetches, retry, remote, ret>>

\* self.map.lock().await (cache.rs lines 37, 43, 49): the task resumes with
\* the guard once no other task holds it
Locked(at) ==
    CASE at = "insert_37" -> "insert_38"
      [] at = "get_43" -> "get_44"
      [] at = "remove_49" -> "remove_50"

AcquireLock(t) ==
    /\ pc[t] \in {"insert_37", "get_43", "remove_49"}
    /\ lock[cache[t]] = NoTask
    /\ lock' = [lock EXCEPT ![cache[t]] = t]
    /\ pc' = [pc EXCEPT ![t] = Locked(pc[t])]
    /\ UNCHANGED <<map, capacity, restVars, arc, text, escaped, remoteUp, lastWrite,
                   op, cache, key, val, look, fetches, retry, remote, ret>>

Release(t) == lock' = [lock EXCEPT ![cache[t]] = NoTask]

Finish(t, r) ==
    /\ pc' = [pc EXCEPT ![t] = "done"]
    /\ ret' = [ret EXCEPT ![t] = r]

\* The body of Cache::insert under the guard: map.insert(key, value)
InsertBody(t) ==
    /\ pc[t] = "insert_38"
    /\ lock[cache[t]] = t
    /\ map' = [map EXCEPT ![cache[t]] = MapInsert(@, key[t], val[t])]
    /\ Release(t)

\* The body of Cache::get under the guard: map.get(key).cloned()
GetBody(t) ==
    /\ pc[t] = "get_44"
    /\ lock[cache[t]] = t
    /\ look' = [look EXCEPT ![t] = MapGet(map[cache[t]], key[t])]
    /\ Release(t)

\* Cache::insert called by a task
CallInsert(t, k, v) == Start(t, "insert", "cache", k, v, "insert_37")

InsertWrite(t) ==
    /\ op[t] = "insert"
    /\ InsertBody(t)
    /\ Finish(t, Unit)
    /\ lastWrite' = t
    /\ UNCHANGED <<capacity, restVars, arc, text, escaped, remoteUp, op, cache, key, val, look, fetches, retry, remote>>

\* Cache::get called by a task
CallGet(t, k) == Start(t, "get", "cache", k, 0, "get_43")

\* Faulty variant: a get that takes the entry it reads out of the map
GetReadConsume(t) ==
    /\ op[t] = "get"
    /\ GetBody(t)
    /\ Finish(t, look'[t])
    /\ map' = [map EXCEPT ![cache[t]] = MapRemove(@, key[t])]
    /\ UNCHANGED <<capacity, restVars, arc, text, escaped, remoteUp, lastWrite,
                   op, cache, key, val, fetches, retry, remote>>

GetRead(t) ==
    /\ op[t] = "get"
    /\ GetBody(t)
    /\ Finish(t, look'[t])
    /\ UNCHANGED <<map, capacity, restVars, arc, text, escaped, remoteUp, lastWrite,
                   op, cache, key, val, fetches, retry, remote>>

\* Cache::remove called by a task
CallRemove(t, k) == Start(t, "remove", "cache", k, 0, "remove_49")

RemoveWrite(t) ==
    /\ op[t] = "remove"
    /\ pc[t] = "remove_50"
    /\ lock[cache[t]] = t
    /\ map' = [map EXCEPT ![cache[t]] = MapRemove(@, key[t])]
    /\ lastWrite' = t
    /\ Release(t)
    /\ Finish(t, Unit)
    /\ UNCHANGED <<capacity, restVars, arc, text, escaped, remoteUp, op, cache, key, val, look, fetches, retry, remote>>

\* The caller drops the result (or has dropped the call) and is free for
\* its next call
Return(t) ==
    /\ pc[t] \in {"done", "cancelled"}
    /\ pc' = [pc EXCEPT ![t] = "idle"]
    /\ op' = [op EXCEPT ![t] = "none"]
    /\ cache' = [cache EXCEPT ![t] = "none"]
    /\ key' = [key EXCEPT ![t] = 0]
    /\ val' = [val EXCEPT ![t] = 0]
    /\ look' = [look EXCEPT ![t] = NoRet]
    /\ fetches' = [fetches EXCEPT ![t] = 0]
    /\ retry' = [retry EXCEPT ![t] = FALSE]
    /\ remote' = [remote EXCEPT ![t] = NoRet]
    /\ ret' = [ret EXCEPT ![t] = NoRet]
    /\ UNCHANGED <<map, capacity, restVars, arc, text, escaped, lock, remoteUp, lastWrite>>

\* ------------------------------------- Cacheable::get_or_insert_with
\* get_or_insert_with(key, f) called by a task; it first awaits self.get(&key)
CallGetOrInsertWith(t, k) == Start(t, "get_or_insert_with", "cache", k, 0, "get_43")

\* Faulty variant: the fetch is made without looking at what get returned
GoiwLookupAlwaysFetch(t) ==
    /\ op[t] = "get_or_insert_with"
    /\ GetBody(t)
    /\ pc' = [pc EXCEPT ![t] = "goiw_94"]
    /\ fetches' = [fetches EXCEPT ![t] = @ + 1]
    /\ UNCHANGED <<map, capacity, restVars, arc, text, escaped, remoteUp, lastWrite,
                   op, cache, key, val, retry, remote, ret>>

\* Faulty variant: on a miss the guard of the lookup is kept while f runs
GoiwLookupHoldLock(t) ==
    /\ op[t] = "get_or_insert_with"
    /\ pc[t] = "get_44"
    /\ lock[cache[t]] = t
    /\ look' = [look EXCEPT ![t] = MapGet(map[cache[t]], key[t])]
    /\ IF look'[t] # None
         THEN /\ Finish(t, Value(look'[t][2]))
              /\ Release(t)
              /\ UNCHANGED fetches
         ELSE /\ pc' = [pc EXCEPT ![t] = "goiw_94"]
              /\ fetches' = [fetches EXCEPT ![t] = @ + 1]
              /\ UNCHANGED <<ret, lock>>
    /\ UNCHANGED <<map, capacity, restVars, arc, text, escaped, remoteUp, lastWrite,
                   op, cache, key, val, retry, remote>>

\* Faulty variant: on a miss the key is reserved in the map before f runs
GoiwLookupReserve(t) ==
    /\ op[t] = "get_or_insert_with"
    /\ GetBody(t)
    /\ IF look'[t] # None
         THEN /\ Finish(t, Value(look'[t][2]))
              /\ UNCHANGED <<fetches, map>>
         ELSE /\ pc' = [pc EXCEPT ![t] = "goiw_94"]
              /\ fetches' = [fetches EXCEPT ![t] = @ + 1]
              /\ map' = [map EXCEPT ![cache[t]] = MapInsert(@, key[t], 0)]
              /\ UNCHANGED ret
    /\ UNCHANGED <<capacity, restVars, arc, text, escaped, remoteUp, lastWrite,
                   op, cache, key, val, retry, remote>>

\* line 90-94: on Some(value) return it; otherwise call f() and await it
GoiwLookup(t) ==
    /\ op[t] = "get_or_insert_with"
    /\ GetBody(t)
    /\ IF look'[t] # None
         THEN /\ Finish(t, Value(look'[t][2]))
              /\ UNCHANGED fetches
         ELSE /\ pc' = [pc EXCEPT ![t] = "goiw_94"]
              /\ fetches' = [fetches EXCEPT ![t] = @ + 1]
              /\ UNCHANGED ret
    /\ UNCHANGED <<map, capacity, restVars, arc, text, escaped, remoteUp, lastWrite,
                   op, cache, key, val, retry, remote>>

\* line 94-95: the future of f resolves with a value; self.insert is awaited
GoiwFetched(t, v) ==
    /\ pc[t] = "goiw_94"
    /\ val' = [val EXCEPT ![t] = v]
    /\ pc' = [pc EXCEPT ![t] = "insert_37"]
    /\ UNCHANGED <<map, capacity, restVars, arc, text, escaped, lock, remoteUp, lastWrite,
                   op, cache, key, look, fetches, retry, remote, ret>>

\* Faulty variant: the fetched value is returned without being stored
GoiwInsertSkip(t) ==
    /\ op[t] = "get_or_insert_with"
    /\ pc[t] = "insert_38"
    /\ lock[cache[t]] = t
    /\ Release(t)
    /\ Finish(t, Value(val[t]))
    /\ UNCHANGED <<map, capacity, restVars, arc, text, escaped, remoteUp, lastWrite,
                   op, cache, key, val, look, fetches, retry, remote>>

\* line 95-96: the insert completes and the fetched value is returned
GoiwInsert(t) ==
    /\ op[t] = "get_or_insert_with"
    /\ InsertBody(t)
    /\ Finish(t, Value(val[t]))
    /\ lastWrite' = t
    /\ UNCHANGED <<capacity, restVars, arc, text, escaped, remoteUp, op, cache, key, val, look, fetches, retry, remote>>

CacheNext ==
    \/ \E t \in Tasks, k \in Keys, v \in Values : CallInsert(t, k, v)
    \/ \E t \in Tasks, k \in Keys : CallGet(t, k)
    \/ \E t \in Tasks, k \in Keys : CallRemove(t, k)
    \/ \E t \in Tasks, k \in Keys : CallGetOrInsertWith(t, k)
    \/ \E t \in Tasks : AcquireLock(t)
    \/ \E t \in Tasks : InsertWrite(t)
    \/ \E t \in Tasks : GetRead(t)
    \/ \E t \in Tasks : RemoveWrite(t)
    \/ \E t \in Tasks : GoiwLookup(t)
    \/ \E t \in Tasks, v \in Values : GoiwFetched(t, v)
    \/ \E t \in Tasks : GoiwInsert(t)
    \/ \E t \in Tasks : Return(t)

\* Tasks sharing one Cache<K, V>
Spec == Init /\ [][CacheNext]_vars

\* What the runtime guarantees: a task that waits for the Mutex gets it when
\* it is released again and again (the tokio Mutex is fair), and a task that
\* holds the guard runs on to the end of its critical section. Nothing makes
\* a fetch resolve, a caller return for another call, or a call start.
UnderGuard(t) ==
    InsertWrite(t) \/ GetRead(t) \/ RemoveWrite(t) \/ GoiwLookup(t) \/ GoiwInsert(t)

Fairness ==
    \A t \in Tasks :
        /\ SF_pc(AcquireLock(t))
        /\ WF_pc(UnderGuard(t))

\* The cache under test is built with the smallest capacity: no operation
\* reads it
InitFair == Init /\ capacity["cache"] = 1

\* Tasks sharing one Cache<K, V>, scheduled fairly
SpecFair == InitFair /\ [][CacheNext]_vars /\ Fairness

\* ------------------------------------------------------------ Cache::take
\* take(key) called by a task: like remove, it waits for the lock on the map
CallTake(t, k) == Start(t, "take", "cache", k, 0, "remove_49")

\* Under the guard the entry is removed and handed back, None when absent
TakeWrite(t) ==
    /\ op[t] = "take"
    /\ pc[t] = "remove_50"
    /\ lock[cache[t]] = t
    /\ map' = [map EXCEPT ![cache[t]] = MapRemove(@, key[t])]
    /\ lastWrite' = t
    /\ Release(t)
    /\ Finish(t, MapGet(map[cache[t]], key[t]))
    /\ UNCHANGED <<capacity, restVars, arc, text, escaped, remoteUp, op, cache, key, val, look, fetches, retry, remote>>

TakeNext ==
    \/ CacheNext
    \/ \E t \in Tasks, k \in Keys : CallTake(t, k)
    \/ \E t \in Tasks : TakeWrite(t)

\* Tasks sharing one cache that also offers take
SpecTake == Init /\ [][TakeNext]_vars

\* -------------------------------------------------------------- AniList
GetOps == {"get_anime", "get_manga", "get_user", "get_char"}

KindOf(o) ==
    CASE o = "get_anime" -> "anime"
      [] o = "get_manga" -> "manga"
      [] o = "get_user" -> "user"
      [] o = "get_char" -> "char"

\* get_<kind>(id) called by a task: it first looks id up in the kind's cache
GetAnime(t, id) == Start(t, "get_anime", "anime", id, 0, "get_43")
\* (faulty variant: get_manga working on cache_anime)
GetMangaWrongCache(t, id) == Start(t, "get_manga", "anime", id, 0, "get_43")
GetManga(t, id) == Start(t, "get_manga", "manga", id, 0, "get_43")
GetUser(t, id) == Start(t, "get_user", "user", id, 0, "get_43")
GetChar(t, id) == Start(t, "get_char", "char", id, 0, "get_43")

\* Faulty variant: the remote source is asked whatever the cache holds
GetKindLookupAlwaysRemote(t) ==
    /\ op[t] \in GetOps
    /\ GetBody(t)
    /\ pc' = [pc EXCEPT ![t] = "remote_60"]
    /\ fetches' = [fetches EXCEPT ![t] = @ + 1]
    /\ UNCHANGED <<map, capacity, restVars, arc, text, escaped, remoteUp, lastWrite,
                   op, cache, key, val, retry, remote, ret>>

\* Faulty variant: a lookup that failed before is refused without asking again
GetKindLookupNegative(t) ==
    /\ op[t] \in GetOps
    /\ GetBody(t)
    /\ IF look'[t] # None
         THEN /\ Finish(t, Ok(look'[t][2]))
              /\ UNCHANGED fetches
         ELSE IF retry[t]
         THEN /\ Finish(t, ErrInvalidId)
              /\ UNCHANGED fetches
         ELSE /\ pc' = [pc EXCEPT ![t] = "remote_60"]
              /\ fetches' = [fetches EXCEPT ![t] = @ + 1]
              /\ UNCHANGED ret
    /\ UNCHANGED <<map, capacity, restVars, arc, text, escaped, remoteUp, lastWrite,
                   op, cache, key, val, retry, remote>>

\* Faulty variant: an entry that is found is taken for stale, dropped, and
\* asked of the remote source again
GetKindLookupExpire(t) ==
    /\ op[t] \in GetOps
    /\ GetBody(t)
    /\ pc' = [pc EXCEPT ![t] = "remote_60"]
    /\ fetches' = [fetches EXCEPT ![t] = @ + 1]
    /\ map' = [map EXCEPT ![cache[t]] = MapRemove(@, key[t])]
    /\ UNCHANGED <<capacity, restVars, arc, text, escaped, remoteUp, lastWrite,
                   op, cache, key, val, retry, remote, ret>>

\* if let Some(x) = self.cache_<kind>.get(&id) { Ok(x) } else { client.get_<kind>(id).await ... }
GetKindLookup(t) ==
    /\ op[t] \in GetOps
    /\ GetBody(t)
    /\ IF look'[t] # None
         THEN /\ Finish(t, Ok(look'[t][2]))
              /\ UNCHANGED fetches
         ELSE /\ pc' = [pc EXCEPT ![t] = "remote_60"]
              /\ fetches' = [fetches EXCEPT ![t] = @ + 1]
              /\ UNCHANGED ret
    /\ UNCHANGED <<map, capacity, restVars, arc, text, escaped, remoteUp, lastWrite,
                   op, cache, key, val, retry, remote>>

\* client.get_<kind>(id).await resolves to Ok(entity): the insert is awaited
RemoteOk(t, v) ==
    /\ pc[t] = "remote_60"
    /\ remoteUp
    /\ remote' = [remote EXCEPT ![t] = Ok(v)]
    /\ val' = [val EXCEPT ![t] = v]
    /\ pc' = [pc EXCEPT ![t] = "insert_37"]
    /\ UNCHANGED <<map, capacity, restVars, arc, text, escaped, lock, remoteUp, lastWrite,
                   op, cache, key, look, fetches, retry, ret>>

\* The ways the remote call can fail: the source knows no such id, the
\* request does not get through, or the client's timeout runs out
RemoteErrors == {"NotFound", "Transport", "Timeout"}

\* client.get_<kind>(id).await resolves to the error e; the source can say
\* that it knows no such id only when it is reachable
RemoteFails(t, e) ==
    /\ pc[t] = "remote_60"
    /\ e = "NotFound" => remoteUp
    /\ remote' = [remote EXCEPT ![t] = Err(e)]

\* Faulty variant: the failure is remembered in the cache
RemoteErrPoison(t) ==
    /\ \E e \in RemoteErrors : RemoteFails(t, e)
    /\ Finish(t, ErrInvalidId)
    /\ map' = [map EXCEPT ![cache[t]] = MapInsert(@, key[t], 0)]
    /\ UNCHANGED <<capacity, restVars, arc, text, escaped, lock, remoteUp, lastWrite,
                   op, cache, key, val, look, fetches, retry>>

\* Faulty variant: the error of the remote call is handed to the caller
RemoteErrPropagate(t) ==
    /\ \E e \in RemoteErrors : RemoteFails(t, e)
    /\ Finish(t, remote'[t])
    /\ UNCHANGED <<map, capacity, restVars, arc, text, escaped, lock, remoteUp, lastWrite,
                   op, cache, key, val, look, fetches, retry>>

\* if let Ok(x) = client.get_<kind>(id).await { .. } else { Err(Error::InvalidId) }:
\* whatever the error, the call returns InvalidId
RemoteErr(t) ==
    /\ \E e \in RemoteErrors : RemoteFails(t, e)
    /\ Finish(t, ErrInvalidId)
    /\ UNCHANGED <<map, capacity, restVars, arc, text, escaped, lock, remoteUp, lastWrite,
                   op, cache, key, val, look, fetches, retry>>

\* self.cache_<kind>.insert(id, x.clone()).await; Ok(x)
GetKindInsert(t) ==
    /\ op[t] \in GetOps
    /\ InsertBody(t)
    /\ Finish(t, Ok(val[t]))
    /\ UNCHANGED <<capacity, restVars, arc, text, escaped, remoteUp, lastWrite, op, cache, key, val, look, fetches, retry, remote>>

\* The remote source becomes unreachable, or reachable again
RemoteToggle ==
    /\ remoteUp' = ~remoteUp
    /\ UNCHANGED <<map, capacity, restVars, arc, text, escaped, lock, lastWrite, taskVars>>

AccessorNext ==
    \/ \E t \in Tasks, id \in Ids : GetAnime(t, id)
    \/ \E t \in Tasks, id \in Ids : GetManga(t, id)
    \/ \E t \in Tasks, id \in Ids : GetUser(t, id)
    \/ \E t \in Tasks, id \in Ids : GetChar(t, id)
    \/ \E t \in Tasks : AcquireLock(t)
    \/ \E t \in Tasks : GetKindLookup(t)
    \/ \E t \in Tasks, v \in Values : RemoteOk(t, v)
    \/ \E t \in Tasks : RemoteErr(t)
    \/ \E t \in Tasks : GetKindInsert(t)
    \/ \E t \in Tasks : Return(t)

AniListNext ==
    \/ AccessorNext
    \/ RemoteToggle

\* Tasks sharing one AniList accessor
SpecAniList == Init /\ [][AniListNext]_vars

\* The caller of a get_<kind>(id) that returned an error makes the same call again
Retry(t) ==
    /\ pc[t] = "done"
    /\ op[t] \in GetOps
    /\ ret[t] = ErrInvalidId
    /\ pc' = [pc EXCEPT ![t] = "get_43"]
    /\ look' = [look EXCEPT ![t] = NoRet]
    /\ fetches' = [fetches EXCEPT ![t] = 0]
    /\ ret' = [ret EXCEPT ![t] = NoRet]
    /\ retry' = [retry EXCEPT ![t] = TRUE]
    /\ remote' = [remote EXCEPT ![t] = NoRet]
    /\ UNCHANGED <<map, capacity, restVars, arc, text, escaped, lock, remoteUp, lastWrite, op, cache, key, val>>

RetryNext ==
    \/ AccessorNext
    \/ \E t \in Tasks : Retry(t)

\* The accessor, its remote source reachable, with callers that repeat a failed lookup
SpecRetry == Init /\ [][RetryNext]_vars

\* ---------------------------------------------------------- cancellation
\* The points a get_or_insert_with or get_<kind> call can be suspended at:
\* waiting for the lock of its lookup or of its insert, or for its fetch
AwaitPoints == {"get_43", "goiw_94", "remote_60", "insert_37"}

\* The caller drops the future of the call while it is suspended: the call
\* runs no further
Cancel(t) ==
    /\ op[t] \in {"get_or_insert_with"} \cup GetOps
    /\ pc[t] \in AwaitPoints
    /\ pc' = [pc EXCEPT ![t] = "cancelled"]
    /\ UNCHANGED <<map, capacity, restVars, arc, text, escaped, lock, remoteUp, lastWrite,
                   op, cache, key, val, look, fetches, retry, remote, ret>>

CancelNext ==
    \/ \E t \in Tasks, k \in Keys : CallGetOrInsertWith(t, k)
    \/ \E t \in Tasks, id \in Ids : GetAnime(t, id)
    \/ \E t \in Tasks : AcquireLock(t)
    \/ \E t \in Tasks : GoiwLookup(t)
    \/ \E t \in Tasks, v \in Values : GoiwFetched(t, v)
    \/ \E t \in Tasks : GoiwInsert(t)
    \/ \E t \in Tasks : GetKindLookup(t)
    \/ \E t \in Tasks, v \in Values : RemoteOk(t, v)
    \/ \E t \in Tasks : RemoteErr(t)
    \/ \E t \in Tasks : GetKindInsert(t)
    \/ \E t \in Tasks : Cancel(t)
    \/ \E t \in Tasks : Return(t)

\* Tasks calling get_or_insert_with on a cache and get_anime on the
\* accessor, whose callers may drop a call that is suspended
SpecCancel == Init /\ [][CancelNext]_vars

LinearNext ==
    \/ \E t \in Tasks, k \in Keys, v \in Values : CallInsert(t, k, v)
    \/ \E t \in Tasks, k \in Keys : CallRemove(t, k)
    \/ \E t \in Tasks, k \in Keys : CallGetOrInsertWith(t, k)
    \/ \E t \in Tasks : AcquireLock(t)
    \/ \E t \in Tasks : InsertWrite(t)
    \/ \E t \in Tasks : RemoveWrite(t)
    \/ \E t \in Tasks : GoiwLookup(t)
    \/ \E t \in Tasks, v \in Values : GoiwFetched(t, v)
    \/ \E t \in Tasks : GoiwInsert(t)
    \/ \E t \in Tasks : Return(t)
    \/ \E t \in Tasks, id \in Ids : GetAnime(t, id)
    \/ \E t \in Tasks : GetKindLookup(t)
    \/ \E t \in Tasks, v \in Values : RemoteOk(t, v)
    \/ \E t \in Tasks : RemoteErr(t)
    \/ \E t \in Tasks : GetKindInsert(t)

\* Tasks calling insert, remove and get_or_insert_with on a cache and
\* get_anime on the accessor, in any interleaving
SpecLinear == Init /\ [][LinearNext]_vars

\* ----------------------------------------------------------------- clones
\* #[derive(Clone)] on Cache and on AniList: every field is cloned, and the
\* clone of an Arc points to the same allocation. Task u is handed a clone of
\* the handle task t holds.
\* Faulty variant: a clone that is built with maps of its own
CloneFresh(t, u) ==
    /\ arc[t] # NoHandle
    /\ arc[u] = NoHandle
    /\ arc' = [arc EXCEPT ![u] =
                  [c \in CacheIds |->
                      CASE arc[t][c] = "cache" -> "anime"
                        [] arc[t][c] = "anime" -> "cache"
                        [] OTHER -> arc[t][c]]]
    /\ UNCHANGED <<map, capacity, restVars, text, escaped, lock, remoteUp, lastWrite, taskVars>>

CloneHandle(t, u) ==
    /\ arc[t] # NoHandle
    /\ arc[u] = NoHandle
    /\ arc' = [arc EXCEPT ![u] = arc[t]]
    /\ UNCHANGED <<map, capacity, restVars, text, escaped, lock, remoteUp, lastWrite, taskVars>>

\* Calls made through the handle the task holds
InsertVia(t, k, v) ==
    /\ arc[t] # NoHandle
    /\ Start(t, "insert", arc[t]["cache"], k, v, "insert_37")
GetVia(t, k) ==
    /\ arc[t] # NoHandle
    /\ Start(t, "get", arc[t]["cache"], k, 0, "get_43")
GetAnimeVia(t, id) ==
    /\ arc[t] # NoHandle
    /\ Start(t, "get_anime", arc[t]["anime"], id, 0, "get_43")

\* The process starts with one handle, held by one task
InitClone ==
    /\ InitCaches
    /\ InitRest
    /\ InitShared
    /\ InitTasks
    /\ text = <<>>
    /\ escaped = NoRet
    /\ \E t \in Tasks : arc = [u \in Tasks |-> IF u = t THEN Original ELSE NoHandle]

CloneNext ==
    \/ \E t \in Tasks, u \in Tasks : CloneHandle(t, u)
    \/ \E t \in Tasks, k \in Keys, v \in Values : InsertVia(t, k, v)
    \/ \E t \in Tasks, k \in Keys : GetVia(t, k)
    \/ \E t \in Tasks, id \in Ids : GetAnimeVia(t, id)
    \/ \E t \in Tasks : AcquireLock(t)
    \/ \E t \in Tasks : InsertWrite(t)
    \/ \E t \in Tasks : GetRead(t)
    \/ \E t \in Tasks : GetKindLookup(t)
    \/ \E t \in Tasks, v \in Values : RemoteOk(t, v)
    \/ \E t \in Tasks : RemoteErr(t)
    \/ \E t \in Tasks : GetKindInsert(t)
    \/ \E t \in Tasks : Return(t)

\* Tasks that work through clones of one Cache and of one AniList
SpecClone == InitClone /\ [][CloneNext]_vars

\* ------------------------------------------------------ AniList searches
SearchOps == {"search_anime", "search_manga", "search_user"}
SearchPcs == {"search_151", "search_166", "search_181"}

\* search_<kind>(title, page, limit): self.client.search_<kind>(..) is called
\* and awaited; no field of the accessor but the client is used
SearchStart(t, o, at) ==
    /\ pc[t] = "idle"
    /\ pc' = [pc EXCEPT ![t] = at]
    /\ op' = [op EXCEPT ![t] = o]
    /\ fetches' = [fetches EXCEPT ![t] = @ + 1]
    /\ UNCHANGED <<map, capacity, restVars, arc, text, escaped, lock, remoteUp, lastWrite,
                   cache, key, val, look, retry, remote, ret>>

SearchAnime(t) == SearchStart(t, "search_anime", "search_151")
SearchManga(t) == SearchStart(t, "search_manga", "search_166")
SearchUser(t) == SearchStart(t, "search_user", "search_181")

\* Faulty variant: the page of results is stored in the kind's cache
SearchResolvedStore(t, r) ==
    /\ pc[t] \in SearchPcs
    /\ Finish(t, r)
    /\ map' = [map EXCEPT !["anime"] = MapInsert(@, 42, 0)]
    /\ UNCHANGED <<capacity, restVars, arc, text, escaped, lock, remoteUp, lastWrite,
                   op, cache, key, val, look, fetches, retry, remote>>

\* The client's search resolves to r, None or Some(page of results), which
\* is returned as it is
SearchResolved(t, r) ==
    /\ pc[t] \in SearchPcs
    /\ Finish(t, r)
    /\ UNCHANGED <<map, capacity, restVars, arc, text, escaped, lock, remoteUp, lastWrite,
                   op, cache, key, val, look, fetches, retry, remote>>

\* search_char: the client call is commented out, None is returned at once
SearchChar(t) ==
    /\ pc[t] = "idle"
    /\ op' = [op EXCEPT ![t] = "search_char"]
    /\ Finish(t, None)
    /\ UNCHANGED <<map, capacity, restVars, arc, text, escaped, lock, remoteUp, lastWrite,
                   cache, key, val, look, fetches, retry, remote>>

SearchResults == {None} \cup {Some(v) : v \in Values}

SearchNext ==
    \/ AccessorNext
    \/ \E t \in Tasks : SearchAnime(t)
    \/ \E t \in Tasks : SearchManga(t)
    \/ \E t \in Tasks : SearchUser(t)
    \/ \E t \in Tasks, r \in SearchResults : SearchResolved(t, r)
    \/ \E t \in Tasks : SearchChar(t)

\* Tasks sharing one AniList accessor, looking entities up and searching
SpecSearch == Init /\ [][SearchNext]_vars

\* ---------------------------------------------------- utils::escape_html
MaxLen == 3          \* texts handed to escape_html have at most MaxLen characters

\* The six characters the documentation lists, the backslash, and a letter
Chars == {"&", "<", ">", "\"", "'", "/", "\\", "a"}
Texts == UNION {[1..n -> Chars] : n \in 0..MaxLen}

EntAmp == <<"&", "a", "m", "p", ";">>
EntLt == <<"&", "l", "t", ";">>
EntGt == <<"&", "g", "t", ";">>
EntQuot == <<"&", "q", "u", "o", "t", ";">>
EntApos == <<"&", "#", "x", "2", "7", ";">>
EntSlash == <<"&", "#", "x", "2", "F", ";">>

\* str::replace(from, to) for a pattern of one character
RECURSIVE Replace(_, _, _)
Replace(s, from, to) ==
    IF s = <<>> THEN <<>>
    ELSE (IF Head(s) = from THEN to ELSE <<Head(s)>>) \o Replace(Tail(s), from, to)

\* The chain of replacements of escape_html, in the order of the source; the
\* fourth pattern is r"\", the backslash
escape_html(s) ==
    Replace(Replace(Replace(Replace(Replace(Replace(s,
        "&", EntAmp), "<", EntLt), ">", EntGt), "\\", EntQuot), "'", EntApos),
        "/", EntSlash)

InitEscape ==
    /\ InitCaches
    /\ InitRest
    /\ InitShared
    /\ InitTasks
    /\ arc = [t \in Tasks |-> Original]
    /\ text \in Texts
    /\ escaped = NoRet

EscapeHtml ==
    /\ escaped = NoRet
    /\ escaped' = escape_html(text)
    /\ UNCHANGED <<map, capacity, restVars, arc, lock, remoteUp, lastWrite, text, taskVars>>

\* escape_html applied to a text
SpecEscape == InitEscape /\ [][EscapeHtml]_vars

\* ------------------------------------------------- UpdateChatLang, I18n
\* The database holds a row for some chats, each with a language
InitLocale ==
    /\ InitCaches
    /\ InitShared
    /\ InitTasks
    /\ text = <<>>
    /\ escaped = NoRet
    /\ arc = [t \in Tasks |-> Original]
    /\ InitAuthIdle
    /\ InitCallbackIdle
    /\ InitPageIdle
    /\ current_locale = DefaultLocale
    /\ language_code \in [Chats -> Langs \cup {"none"}]
    /\ chat = [t \in Tasks |-> "none"]
    /\ mwLocale = [t \in Tasks |-> "none"]
    /\ said = [t \in Tasks |-> "none"]

\* I18n::set_locale (i18n.rs lines 92-95)
set_locale(l) == current_locale' = l

\* I18n::locale (i18n.rs lines 78-81)
I18nLocale == current_locale

\* An update from chat ch reaches UpdateChatLang::handle, which awaits
\* User::get_by_id (line 38) or Group::get_by_id (line 68)
HandleUpdate(t, ch) ==
    /\ pc[t] = "idle"
    /\ pc' = [pc EXCEPT ![t] = "lang_38"]
    /\ op' = [op EXCEPT ![t] = "update"]
    /\ chat' = [chat EXCEPT ![t] = ch]
    /\ UNCHANGED <<coreVars, authVars, callbackVars, pageVars, cache, key, val, look, fetches, retry, remote, ret,
                   current_locale, language_code, mwLocale, said>>

\* get_by_id resolves. Ok(Some(row)), lines 39-41 and 69-71: set_locale
\* with the row's language, and the handler runs next. Ok(None), lines
\* 42-45 and 72-75: a row with "pt" is built and its creation awaited.
GetById(t) ==
    /\ op[t] = "update" /\ pc[t] = "lang_38"
    /\ IF language_code[chat[t]] # "none"
         THEN /\ set_locale(language_code[chat[t]])
              /\ mwLocale' = [mwLocale EXCEPT ![t] = language_code[chat[t]]]
              /\ pc' = [pc EXCEPT ![t] = "handler"]
         ELSE /\ pc' = [pc EXCEPT ![t] = "lang_45"]
              /\ UNCHANGED <<current_locale, mwLocale>>
    /\ UNCHANGED <<coreVars, authVars, callbackVars, pageVars, op, cache, key, val, look, fetches, retry, remote, ret,
                   language_code, chat, said>>

\* new_user.create / new_group.create resolves (lines 44-56, 74-86): the
\* row is there with "pt", unless another update created it meanwhile;
\* either way the outcome is only logged, and the handler runs next
Create(t) ==
    /\ op[t] = "update" /\ pc[t] = "lang_45"
    /\ language_code' = [language_code EXCEPT ![chat[t]] =
                            IF @ = "none" THEN "pt" ELSE @]
    /\ pc' = [pc EXCEPT ![t] = "handler"]
    /\ UNCHANGED <<coreVars, authVars, callbackVars, pageVars, op, cache, key, val, look, fetches, retry, remote, ret,
                   current_locale, chat, mwLocale, said>>

\* The handler of the update calls I18n::translate (i18n.rs lines 106-109),
\* which translates to self.locale()
Translate(t) ==
    /\ op[t] = "update" /\ pc[t] = "handler"
    /\ said' = [said EXCEPT ![t] = I18nLocale]
    /\ pc' = [pc EXCEPT ![t] = "done"]
    /\ UNCHANGED <<coreVars, authVars, callbackVars, pageVars, op, cache, key, val, look, fetches, retry, remote, ret,
                   current_locale, language_code, chat, mwLocale>>

\* The handler returns and the task takes the next update
UpdateDone(t) ==
    /\ op[t] = "update" /\ pc[t] = "done"
    /\ pc' = [pc EXCEPT ![t] = "idle"]
    /\ op' = [op EXCEPT ![t] = "none"]
    /\ chat' = [chat EXCEPT ![t] = "none"]
    /\ mwLocale' = [mwLocale EXCEPT ![t] = "none"]
    /\ said' = [said EXCEPT ![t] = "none"]
    /\ UNCHANGED <<coreVars, authVars, callbackVars, pageVars, cache, key, val, look, fetches, retry, remote, ret,
                   current_locale, language_code>>

LocaleNext ==
    \/ \E t \in Tasks, ch \in Chats : HandleUpdate(t, ch)
    \/ \E t \in Tasks : GetById(t)
    \/ \E t \in Tasks : Create(t)
    \/ \E t \in Tasks : Translate(t)
    \/ \E t \in Tasks : UpdateDone(t)

\* Updates handled by tasks sharing the I18n resource
SpecLocale == InitLocale /\ [][LocaleNext]_vars

\* ------------------------------------------------- AuthenticateAniList
\* rust_anilist::Client::with_token(&token).timeout(15 s) (line 57): the
\* client is told apart by the token it sends
with_token(tok) == tok

\* rust_anilist::Client::with_timeout(15 s) (lines 59, 69)
with_timeout == Anonymous

\* The client that lines 56-60 build from a row's anilist_token
ClientFor(tok) == IF tok # "none" THEN with_token(tok) ELSE with_timeout

authTaskVars == <<cache, key, val, look, fetches, retry, remote, ret>>

\* An update reaches AuthenticateAniList::handle. With a sender (line 49)
\* User::get_by_id is awaited (line 50); without one the accessor gets a
\* new anonymous client (line 69) and the handler runs next.
AuthHandle(t, s) ==
    /\ pc[t] = "idle"
    /\ op' = [op EXCEPT ![t] = "auth"]
    /\ sender' = [sender EXCEPT ![t] = s]
    /\ IF s # "none"
         THEN /\ pc' = [pc EXCEPT ![t] = "auth_50"]
              /\ UNCHANGED ani_client
         ELSE /\ pc' = [pc EXCEPT ![t] = "handler"]
              /\ ani_client' = [ani_client EXCEPT ![t] = with_timeout]
    /\ UNCHANGED <<coreVars, localeVars, callbackVars, pageVars, authTaskVars, anilist_token, clients, user>>

\* get_by_id resolves to Ok(Some(user)) (line 50); self.clients.get is
\* called with user.id (line 51)
AuthGetById(t) ==
    /\ op[t] = "auth" /\ pc[t] = "auth_50"
    /\ user' = [user EXCEPT ![t] = anilist_token[sender[t]]]
    /\ pc' = [pc EXCEPT ![t] = "auth_51"]
    /\ UNCHANGED <<coreVars, localeVars, callbackVars, pageVars, authTaskVars, op, anilist_token, clients,
                   sender, ani_client>>

\* Faulty variant: replacing the client empties the entity caches
AuthClientsGetReset(t) ==
    /\ op[t] = "auth" /\ pc[t] = "auth_51"
    /\ map' = [c \in CacheIds |-> EmptyMap]
    /\ ani_client' = [ani_client EXCEPT ![t] = ClientFor(user[t])]
    /\ pc' = [pc EXCEPT ![t] = "handler"]
    /\ UNCHANGED <<capacity, arc, lock, remoteUp, lastWrite, text, escaped,
                   localeVars, callbackVars, pageVars, authTaskVars, op, anilist_token, clients,
                   sender, user>>

\* self.clients.get(&user.id) (line 51). Some(client), line 52: the accessor
\* gets the cached client and the handler runs next. None, lines 54-62: a
\* client is built from user.anilist_token and self.clients.insert awaited.
AuthClientsGet(t) ==
    /\ op[t] = "auth" /\ pc[t] = "auth_51"
    /\ IF MapGet(clients, sender[t]) # None
         THEN /\ ani_client' = [ani_client EXCEPT ![t] = MapGet(clients, sender[t])[2]]
              /\ pc' = [pc EXCEPT ![t] = "handler"]
         ELSE /\ pc' = [pc EXCEPT ![t] = "auth_62"]
              /\ UNCHANGED ani_client
    /\ UNCHANGED <<coreVars, localeVars, callbackVars, pageVars, authTaskVars, op, anilist_token, clients,
                   sender, user>>

\* self.clients.insert(user.id, Arc::clone(&client)) resolves (line 62) and
\* the accessor gets the new client (line 63)
AuthClientsInsert(t) ==
    /\ op[t] = "auth" /\ pc[t] = "auth_62"
    /\ clients' = MapInsert(clients, sender[t], ClientFor(user[t]))
    /\ ani_client' = [ani_client EXCEPT ![t] = ClientFor(user[t])]
    /\ pc' = [pc EXCEPT ![t] = "handler"]
    /\ UNCHANGED <<coreVars, localeVars, callbackVars, pageVars, authTaskVars, op, anilist_token, sender, user>>

\* The handler is auth (plugins/auth.rs): for a sender whose row has no
\* token (lines 55-57, 69), a token is obtained and stored in the row
\* (lines 123-126)
Auth(t, tok) ==
    /\ op[t] = "auth" /\ pc[t] = "handler"
    /\ sender[t] # "none"
    /\ anilist_token[sender[t]] = "none"
    /\ anilist_token' = [anilist_token EXCEPT ![sender[t]] = tok]
    /\ pc' = [pc EXCEPT ![t] = "done"]
    /\ UNCHANGED <<coreVars, localeVars, callbackVars, pageVars, authTaskVars, op, clients, sender, user,
                   ani_client>>

\* The handler calls ani.get_anime(id) on the accessor it was handed
HandlerGetAnime(t, id) ==
    /\ op[t] = "auth" /\ pc[t] = "handler"
    /\ pc' = [pc EXCEPT ![t] = "get_43"]
    /\ op' = [op EXCEPT ![t] = "get_anime"]
    /\ cache' = [cache EXCEPT ![t] = "anime"]
    /\ key' = [key EXCEPT ![t] = id]
    /\ UNCHANGED <<coreVars, restVars, val, look, fetches, retry, remote, ret>>

\* The handler returns and the task takes the next update
AuthDone(t) ==
    /\ pc[t] = "done"
    /\ pc' = [pc EXCEPT ![t] = "idle"]
    /\ op' = [op EXCEPT ![t] = "none"]
    /\ cache' = [cache EXCEPT ![t] = "none"]
    /\ key' = [key EXCEPT ![t] = 0]
    /\ val' = [val EXCEPT ![t] = 0]
    /\ look' = [look EXCEPT ![t] = NoRet]
    /\ fetches' = [fetches EXCEPT ![t] = 0]
    /\ retry' = [retry EXCEPT ![t] = FALSE]
    /\ remote' = [remote EXCEPT ![t] = NoRet]
    /\ ret' = [ret EXCEPT ![t] = NoRet]
    /\ sender' = [sender EXCEPT ![t] = "none"]
    /\ user' = [user EXCEPT ![t] = "none"]
    /\ ani_client' = [ani_client EXCEPT ![t] = "none"]
    /\ UNCHANGED <<coreVars, localeVars, callbackVars, pageVars, anilist_token, clients>>

AuthNext ==
    \/ \E t \in Tasks, s \in Users \cup {"none"} : AuthHandle(t, s)
    \/ \E t \in Tasks : AuthGetById(t)
    \/ \E t \in Tasks : AuthClientsGet(t)
    \/ \E t \in Tasks : AuthClientsInsert(t)
    \/ \E t \in Tasks, tok \in Tokens : Auth(t, tok)
    \/ \E t \in Tasks, id \in Ids : HandlerGetAnime(t, id)
    \/ \E t \in Tasks : AcquireLock(t)
    \/ \E t \in Tasks : GetKindLookup(t)
    \/ \E t \in Tasks, v \in Values : RemoteOk(t, v)
    \/ \E t \in Tasks : RemoteErr(t)
    \/ \E t \in Tasks : GetKindInsert(t)
    \/ \E t \in Tasks : AuthDone(t)

\* The process starts with no client cached, on a database in which some
\* users have a token from an earlier run
InitAuth ==
    /\ InitCaches
    /\ InitShared
    /\ InitTasks
    /\ InitLocaleIdle
    /\ InitCallbackIdle
    /\ InitPageIdle
    /\ text = <<>>
    /\ escaped = NoRet
    /\ arc = [t \in Tasks |-> Original]
    /\ anilist_token \in [Users -> Tokens \cup {"none"}]
    /\ clients = EmptyMap
    /\ sender = [t \in Tasks |-> "none"]
    /\ user = [t \in Tasks |-> "none"]
    /\ ani_client = [t \in Tasks |-> "none"]

\* Updates of users with a row, or without a sender, passing through
\* AuthenticateAniList to handlers that authenticate or look an anime up
SpecAuth == InitAuth /\ [][AuthNext]_vars

\* ------------------------------------------- callback query handlers
\* The ids of the users who press buttons, and the same ids as they are
\* written in callback data
SenderIds == {1, 2}
IdTokens == {"1", "2"}
AnimeTokens == {"42"}
PageTokens == {"2"}

\* The infos of the anime_info route that the model presses (anime.rs
\* line 45)
Infos == {"studios", "chars"}

\* str::parse::<i64> / parse::<usize> on the tokens above
ParseI64(s) == CASE s = "1" -> 1 [] s = "2" -> 2 [] s = "42" -> 42

\* The callback data of the buttons the handlers make, split at whitespace:
\* "anime {id} {sender}" (anime.rs lines 116, 219, 225, 317),
\* "anime {info} {id} {sender}" (lines 148-197),
\* "anime chars {id} {sender} {page}" (lines 403-407 with utils.rs line
\* 462), "char {id} {sender}" (character.rs lines 106, 251)
CallbackData ==
    {<<"anime", a, u>> : a \in AnimeTokens, u \in IdTokens}
      \cup {<<"anime", i, a, u>> : i \in Infos, a \in AnimeTokens, u \in IdTokens}
      \cup {<<"anime", "chars", a, u, p>> :
                a \in AnimeTokens, u \in IdTokens, p \in PageTokens}
      \cup {<<"char", a, u>> : a \in AnimeTokens, u \in IdTokens}

\* The route whose regex matches the data (anime.rs lines 43-46,
\* character.rs line 37)
HandlerOf(d) ==
    IF d[1] = "char" THEN "character"
    ELSE IF d[2] \in Infos THEN "anime_info"
    ELSE "anime"

\* text.split_whitespace().skip(1) (anime.rs lines 64, 261-265;
\* character.rs line 52)
Args(d) == Tail(d)

\* The last argument of the data
LastArg(d) == ParseI64(Args(d)[Len(Args(d))])

\* The sender id the handler reads: args.pop() in anime (line 69) and
\* character (line 57), args[2] in anime_info (line 269)
SenderIdOf(d) ==
    IF HandlerOf(d) = "anime_info" THEN ParseI64(Args(d)[3])
    ELSE ParseI64(Args(d)[Len(Args(d))])

\* The entity id the handler looks up: args[0] in anime (line 90) and
\* character (line 78), args[1] in anime_info (line 268)
EntityIdOf(d) ==
    IF HandlerOf(d) = "anime_info" THEN ParseI64(Args(d)[2])
    ELSE ParseI64(Args(d)[1])

\* Faulty variant: the handler looks the entity up whoever pressed
CallbackQueryNoCheck(t, d, f) ==
    /\ pc[t] = "idle"
    /\ data' = [data EXCEPT ![t] = d]
    /\ presser' = [presser EXCEPT ![t] = f]
    /\ pc' = [pc EXCEPT ![t] = "get_43"]
    /\ op' = [op EXCEPT ![t] = IF HandlerOf(d) = "character"
                                 THEN "get_char" ELSE "get_anime"]
    /\ cache' = [cache EXCEPT ![t] = IF HandlerOf(d) = "character"
                                       THEN "char" ELSE "anime"]
    /\ key' = [key EXCEPT ![t] = EntityIdOf(d)]
    /\ UNCHANGED <<coreVars, localeVars, authVars, pageVars, alert, edited,
                   val, look, fetches, retry, remote, ret>>

\* User f presses a button whose data is d, and the handler of its route
\* runs. When f is not the sender id of the data, the not_allowed alert is
\* sent (anime.rs lines 71-77, 273-279; character.rs lines 59-65);
\* otherwise get_anime or get_char is called (anime.rs lines 91, 283;
\* character.rs line 79).
CallbackQuery(t, d, f) ==
    /\ pc[t] = "idle"
    /\ data' = [data EXCEPT ![t] = d]
    /\ presser' = [presser EXCEPT ![t] = f]
    /\ IF f # SenderIdOf(d)
         THEN /\ pc' = [pc EXCEPT ![t] = "alert_77"]
              /\ op' = [op EXCEPT ![t] = "callback"]
              /\ UNCHANGED <<cache, key>>
         ELSE /\ pc' = [pc EXCEPT ![t] = "get_43"]
              /\ op' = [op EXCEPT ![t] = IF HandlerOf(d) = "character"
                                           THEN "get_char" ELSE "get_anime"]
              /\ cache' = [cache EXCEPT ![t] = IF HandlerOf(d) = "character"
                                                 THEN "char" ELSE "anime"]
              /\ key' = [key EXCEPT ![t] = EntityIdOf(d)]
    /\ UNCHANGED <<coreVars, localeVars, authVars, pageVars, alert, edited,
                   val, look, fetches, retry, remote, ret>>

\* query.answer().alert(t("not_allowed")).send() resolves, and the handler
\* returns Ok(()) (anime.rs lines 77-78, 279-280; character.rs lines 65-66)
AlertSent(t) ==
    /\ op[t] = "callback" /\ pc[t] = "alert_77"
    /\ alert' = [alert EXCEPT ![t] = TRUE]
    /\ pc' = [pc EXCEPT ![t] = "done"]
    /\ UNCHANGED <<coreVars, localeVars, authVars, pageVars, data, presser, edited,
                   op, cache, key, val, look, fetches, retry, remote, ret>>

\* The lookup has returned: the handler edits the message with the entity,
\* or replies that it was not found (anime.rs lines 92-94, 284-500;
\* character.rs lines 80-82)
EditMessage(t) ==
    /\ op[t] \in GetOps /\ pc[t] = "done" /\ data[t] # <<>>
    /\ edited' = [edited EXCEPT ![t] = TRUE]
    /\ pc' = [pc EXCEPT ![t] = "answered"]
    /\ UNCHANGED <<coreVars, localeVars, authVars, pageVars, data, presser, alert,
                   op, cache, key, val, look, fetches, retry, remote, ret>>

\* The handler has returned and the task takes the next query
CallbackDone(t) ==
    /\ \/ op[t] = "callback" /\ pc[t] = "done"
       \/ pc[t] = "answered"
    /\ pc' = [pc EXCEPT ![t] = "idle"]
    /\ op' = [op EXCEPT ![t] = "none"]
    /\ cache' = [cache EXCEPT ![t] = "none"]
    /\ key' = [key EXCEPT ![t] = 0]
    /\ val' = [val EXCEPT ![t] = 0]
    /\ look' = [look EXCEPT ![t] = NoRet]
    /\ fetches' = [fetches EXCEPT ![t] = 0]
    /\ retry' = [retry EXCEPT ![t] = FALSE]
    /\ remote' = [remote EXCEPT ![t] = NoRet]
    /\ ret' = [ret EXCEPT ![t] = NoRet]
    /\ data' = [data EXCEPT ![t] = <<>>]
    /\ presser' = [presser EXCEPT ![t] = 0]
    /\ alert' = [alert EXCEPT ![t] = FALSE]
    /\ edited' = [edited EXCEPT ![t] = FALSE]
    /\ UNCHANGED <<coreVars, localeVars, authVars, pageVars>>

CallbackNext ==
    \/ \E t \in Tasks, d \in CallbackData, f \in SenderIds : CallbackQuery(t, d, f)
    \/ \E t \in Tasks : AlertSent(t)
    \/ \E t \in Tasks : AcquireLock(t)
    \/ \E t \in Tasks : GetKindLookup(t)
    \/ \E t \in Tasks, v \in Values : RemoteOk(t, v)
    \/ \E t \in Tasks : RemoteErr(t)
    \/ \E t \in Tasks : GetKindInsert(t)
    \/ \E t \in Tasks : EditMessage(t)
    \/ \E t \in Tasks : CallbackDone(t)

\* Buttons of the anime, anime-info and character routes pressed by users
SpecCallback == Init /\ [][CallbackNext]_vars

\* ----------------------------------------------- gen_pagination_buttons
MaxPage == 11
MaxPages == 12

\* The width of usize: 64 bits in the build, UsizeBits here, which is
\* beyond every page and max_pages below
UsizeBits == 16
UsizeRange == 2 ^ UsizeBits

\* The callback arguments the model passes, as sequences of characters
Callbacks == {<<"c">>, <<"a", " ", "7">>}

\* The left arrow, the right arrow and the middle dot that mark a label
\* (utils.rs lines 456, 458, 460), written in ASCII
ArrowLeft == "<-"
ArrowRight == "->"
Dot == "."

\* format!("{}", i) of a usize: its decimal digits
Digit(d) == <<"0", "1", "2", "3", "4", "5", "6", "7", "8", "9">>[d + 1]
RECURSIVE Decimal(_)
Decimal(i) ==
    IF i < 10 THEN <<Digit(i)>>
    ELSE Decimal(i \div 10) \o <<Digit(i % 10)>>

\* page - 2 and page + 2 on usize, as a build without overflow checks
\* computes them
WrappingSub(a, b) == (a - b) % UsizeRange
WrappingAdd(a, b) == (a + b) % UsizeRange

\* Faulty variant: the subtraction is made for every page
SubGuardNone(p) == TRUE

\* page > 1, the left operand of && on line 450: page - 2 is evaluated
\* only when it holds
SubGuard(p) == p > 1

\* Line 450: the condition of continue
Skips(i, p) ==
    \/ SubGuard(p) /\ i < WrappingSub(p, 2)
    \/ i > WrappingAdd(p, 2)

\* Line 450 in a build with overflow checks: an evaluated page - 2 below
\* zero or an evaluated page + 2 beyond usize panics
Overflows(i, p) ==
    \/ SubGuard(p) /\ p < 2
    \/ /\ ~(SubGuard(p) /\ i < WrappingSub(p, 2))
       /\ p + 2 >= UsizeRange

\* Lines 454-463: button::inline(label, format!("{0} {1}", callback, i))
Inline(cb, i, p) ==
    [text |-> IF i < p THEN <<ArrowLeft, " ">> \o Decimal(i)
              ELSE IF i > p THEN Decimal(i) \o <<" ", ArrowRight>>
              ELSE <<Dot, " ">> \o Decimal(i) \o <<" ", Dot>>,
     data |-> cb \o <<" ">> \o Decimal(i)]

\* Lines 449-464: the iterations of the for loop from i on
RECURSIVE ForLoop(_, _, _, _)
ForLoop(i, cb, p, mp) ==
    IF i > mp THEN <<>>
    ELSE (IF Skips(i, p) THEN <<>> ELSE <<Inline(cb, i, p)>>)
           \o ForLoop(i + 1, cb, p, mp)

Panic == <<"Panic">>

\* gen_pagination_buttons (utils.rs lines 446-467): what a call can come to.
\* Without an overflow it returns the buttons; with one it panics when
\* built with overflow checks and goes on with the wrapped number when not.
gen_pagination_buttons(cb, p, mp) ==
    IF \E i \in 1..mp : Overflows(i, p)
      THEN {Panic, Ok(ForLoop(1, cb, p, mp))}
      ELSE {Ok(ForLoop(1, cb, p, mp))}

InitPage ==
    /\ InitCaches
    /\ InitShared
    /\ InitTasks
    /\ InitLocaleIdle
    /\ InitAuthIdle
    /\ InitCallbackIdle
    /\ text = <<>>
    /\ escaped = NoRet
    /\ arc = [t \in Tasks |-> Original]
    /\ callback \in Callbacks
    /\ page \in 0..MaxPage
    /\ max_pages \in 0..MaxPages
    /\ buttons = NoRet

GenPaginationButtons ==
    /\ buttons = NoRet
    /\ buttons' \in gen_pagination_buttons(callback, page, max_pages)
    /\ UNCHANGED <<coreVars, taskVars, localeVars, authVars, callbackVars,
                   callback, page, max_pages>>

\* One call of gen_pagination_buttons on any arguments
SpecPage == InitPage /\ [][GenPaginationButtons]_vars

\* ================================================================ claims
\* Steps of one task, read off two successive states
Moves(t) == pc'[t] # pc[t]
InsertCompletes(t) == pc[t] = "insert_38" /\ Moves(t)
RemoveCompletes(t) == pc[t] = "remove_50" /\ Moves(t)
LookupCompletes(t) == pc[t] = "get_44" /\ Moves(t)
Present(c, k) == k \in DOMAIN map[c]

\* C1 - capacity invariant: a cache built with capacity C never holds more
\* than C distinct keys, whatever inserts, gets, removes and
\* get_or_insert_with calls have run.
CapacityInvariant ==
    \A c \in CacheIds : MapLen(map[c]) <= capacity[c]

\* C2 - whole-cache eviction: an insert that finds the map holding
\* capacity-many (or more) entries removes every one of them before it
\* stores its own, so the map then holds that entry alone.
WholeCacheEviction ==
    [][\A t \in Tasks :
          (InsertCompletes(t) /\ MapLen(map[cache[t]]) >= capacity[cache[t]])
              => map'[cache[t]] = MapInsert(EmptyMap, key[t], val[t])]_vars

\* C3 - read-your-write: the step completing insert(k, v) leaves k mapped to
\* v; a get(k) returns what k is mapped to; and the entry of a key changes
\* only in a step completing an insert or a remove of that very key.
ReadYourWrite ==
    [][/\ \A t \in Tasks :
            /\ (InsertCompletes(t) /\ op[t] = "insert")
                  => (key[t] \in DOMAIN map'[cache[t]]
                      /\ map'[cache[t]][key[t]] = val[t])
            /\ (LookupCompletes(t) /\ op[t] = "get")
                  => ret'[t] = IF Present(cache[t], key[t])
                                 THEN Some(map[cache[t]][key[t]]) ELSE None
       /\ \A k \in Keys :
            (Present("cache", k)
               /\ ~(k \in DOMAIN map'["cache"] /\ map'["cache"][k] = map["cache"][k]))
              => \E t \in Tasks :
                    /\ InsertCompletes(t) \/ RemoveCompletes(t)
                    /\ cache[t] = "cache" /\ key[t] = k]_vars

\* A get that returned the value an earlier, completed insert stored
ReadYourWriteWitness ==
    \E t \in Tasks, u \in Tasks :
        /\ op[t] = "insert" /\ pc[t] = "done"
        /\ op[u] = "get" /\ pc[u] = "done" /\ key[u] = key[t]
        /\ lastWrite = t
        /\ ret[u] = Some(val[t])

\* C4 - hit path of get_or_insert_with: when the lookup finds the key, the
\* call returns the stored value at once, has invoked no fetch, and the map
\* is left as it was.
GoiwHitPath ==
    [][\A t \in Tasks :
          (LookupCompletes(t) /\ op[t] = "get_or_insert_with"
              /\ Present(cache[t], key[t]))
            => /\ pc'[t] = "done"
               /\ ret'[t] = Value(map[cache[t]][key[t]])
               /\ fetches'[t] = 0
               /\ map' = map]_vars

\* A get_or_insert_with that returned on the hit path
GoiwHitWitness ==
    \E t \in Tasks :
        /\ op[t] = "get_or_insert_with" /\ pc[t] = "done"
        /\ look[t] # None /\ ret[t] = Value(look[t][2]) /\ fetches[t] = 0

\* C5 - miss path of get_or_insert_with: when the lookup finds no entry, the
\* fetch is invoked, once; the call has then made exactly one fetch when it
\* stores the fetched value under its key, and it returns that same value.
GoiwMissPath ==
    [][\A t \in Tasks :
          /\ (LookupCompletes(t) /\ op[t] = "get_or_insert_with"
                 /\ ~Present(cache[t], key[t]))
               => (pc'[t] = "goiw_94" /\ fetches[t] = 0 /\ fetches'[t] = 1)
          /\ (op[t] = "get_or_insert_with" /\ pc[t] = "goiw_94" /\ Moves(t))
               => (val'[t] \in Values /\ fetches'[t] = 1 /\ map' = map)
          /\ (op[t] = "get_or_insert_with" /\ pc[t] \in {"insert_37", "insert_38"}
                 /\ Moves(t))
               => fetches'[t] = 1 /\ val'[t] = val[t]
          /\ (InsertCompletes(t) /\ op[t] = "get_or_insert_with")
               => /\ key[t] \in DOMAIN map'[cache[t]]
                  /\ map'[cache[t]][key[t]] = val[t]
                  /\ pc'[t] = "done"
                  /\ ret'[t] = Value(val[t])]_vars

\* A get_or_insert_with that missed, fetched once and returned what it stored
GoiwMissWitness ==
    \E t \in Tasks :
        /\ op[t] = "get_or_insert_with" /\ pc[t] = "done"
        /\ look[t] = None /\ fetches[t] = 1
        /\ ret[t] = Value(val[t])
        /\ Present(cache[t], key[t]) /\ map[cache[t]][key[t]] = ret[t][2]

\* C6 - accessor hit: when get_<kind>(id) finds id in the kind's cache it
\* returns Ok with the cached value and has made no remote call, whether or
\* not the remote source is reachable.
AccessorHit ==
    [][\A t \in Tasks :
          (LookupCompletes(t) /\ op[t] \in GetOps /\ Present(cache[t], key[t]))
            => /\ cache[t] = KindOf(op[t])
               /\ pc'[t] = "done"
               /\ ret'[t] = Ok(map[cache[t]][key[t]])
               /\ fetches'[t] = 0]_vars

\* get_anime(42) answered from the cache while the remote source is unreachable
AccessorHitWitness ==
    \E t \in Tasks :
        /\ op[t] = "get_anime" /\ key[t] = 42 /\ pc[t] = "done"
        /\ look[t] # None /\ ret[t] = Ok(look[t][2]) /\ fetches[t] = 0
        /\ ~remoteUp

\* C7 - accessor miss with success: when id is absent get_<kind>(id) calls the
\* remote source, once; when the remote source answers with a value the call
\* stores it under id in the cache of its own kind, touches no other cache,
\* and returns Ok with that value.
AccessorMissSuccess ==
    [][\A t \in Tasks :
          /\ (LookupCompletes(t) /\ op[t] \in GetOps /\ ~Present(cache[t], key[t]))
               => (pc'[t] = "remote_60" /\ fetches[t] = 0 /\ fetches'[t] = 1)
          /\ (op[t] \in GetOps /\ pc[t] = "remote_60" /\ pc'[t] = "insert_37")
               => (val'[t] \in Values /\ fetches'[t] = 1 /\ map' = map)
          /\ (op[t] \in GetOps /\ pc[t] \in {"insert_37", "insert_38"} /\ Moves(t))
               => fetches'[t] = 1 /\ val'[t] = val[t]
          /\ (InsertCompletes(t) /\ op[t] \in GetOps)
               => /\ cache[t] = KindOf(op[t])
                  /\ key[t] \in DOMAIN map'[cache[t]]
                  /\ map'[cache[t]][key[t]] = val[t]
                  /\ \A c \in CacheIds \ {cache[t]} : map'[c] = map[c]
                  /\ pc'[t] = "done"
                  /\ ret'[t] = Ok(val[t])]_vars

\* A get_manga that missed, asked the remote source once and cached its answer
AccessorMissSuccessWitness ==
    \E t \in Tasks :
        /\ op[t] = "get_manga" /\ pc[t] = "done"
        /\ look[t] = None /\ fetches[t] = 1
        /\ ret[t] = Ok(val[t])
        /\ Present("manga", key[t]) /\ map["manga"][key[t]] = val[t]

\* C8 - failure is not cached: a get_<kind>(id) that returns an error does so
\* on the remote source's answer to its one remote call, and no step of the
\* call up to and including that return changes any cache.
FailureNotCached ==
    [][\A t \in Tasks :
          /\ (Moves(t) /\ pc'[t] = "done" /\ op[t] \in GetOps /\ ret'[t] = ErrInvalidId)
               => (pc[t] = "remote_60" /\ fetches'[t] = 1 /\ map' = map)
          /\ (Moves(t) /\ op'[t] \in GetOps
                 /\ pc[t] \in {"idle", "get_43", "get_44", "remote_60"})
               => map' = map]_vars

\* A failed get_<kind>(id) that left id uncached
FailureNotCachedWitness ==
    \E t \in Tasks :
        /\ op[t] \in GetOps /\ pc[t] = "done"
        /\ ret[t] = ErrInvalidId /\ fetches[t] = 1
        /\ ~Present(cache[t], key[t])

\* C9 - a miss does not poison: a get_<kind>(id) repeated after it failed
\* (once or many times) still asks the remote source when id is absent, returns an
\* error only on the remote source's answer, and when the remote source
\* succeeds leaves id cached and returns Ok.
MissDoesNotPoison ==
    [][\A t \in Tasks :
          (retry[t] /\ op[t] \in GetOps) =>
            /\ (LookupCompletes(t) /\ ~Present(cache[t], key[t]))
                 => (pc'[t] = "remote_60" /\ fetches'[t] = 1)
            /\ (Moves(t) /\ pc'[t] = "done" /\ ret'[t] = ErrInvalidId)
                 => pc[t] = "remote_60"
            /\ InsertCompletes(t)
                 => /\ key[t] \in DOMAIN map'[cache[t]]
                    /\ map'[cache[t]][key[t]] = val[t]
                    /\ ret'[t] = Ok(val[t])]_vars

\* A lookup that failed, then was made again, fetched and is now cached
MissDoesNotPoisonWitness ==
    \E t \in Tasks :
        /\ retry[t] /\ op[t] \in GetOps /\ pc[t] = "done"
        /\ look[t] = None /\ fetches[t] = 1
        /\ ret[t] = Ok(val[t])
        /\ Present(cache[t], key[t]) /\ map[cache[t]][key[t]] = val[t]

\* C10 - concurrent duplicate fetch: when two get_or_insert_with calls for
\* the same key have both missed, fetched and returned, and theirs are the
\* latest writes, the key holds the value of the one whose insert took the
\* lock last, which is one of the two fetched values.
FetchedBoth(t, u) ==
    /\ t # u
    /\ op[t] = "get_or_insert_with" /\ op[u] = "get_or_insert_with"
    /\ pc[t] = "done" /\ pc[u] = "done"
    /\ cache[t] = cache[u] /\ key[t] = key[u]
    /\ look[t] = None /\ look[u] = None

ConcurrentDuplicateFetch ==
    \A t \in Tasks, u \in Tasks :
        (FetchedBoth(t, u) /\ lastWrite \in {t, u})
          => /\ Present(cache[t], key[t])
             /\ map[cache[t]][key[t]] = val[lastWrite]
             /\ map[cache[t]][key[t]] \in {ret[t][2], ret[u][2]}

\* Both calls fetched, with different values, and both have returned
ConcurrentDuplicateFetchWitness ==
    \E t \in Tasks, u \in Tasks :
        /\ FetchedBoth(t, u)
        /\ fetches[t] = 1 /\ fetches[u] = 1
        /\ val[t] # val[u]
        /\ lastWrite = u
        /\ map[cache[t]][key[t]] = val[u]

\* The fetch of task t resolves with a value in this step
FetchCompletes(t) ==
    pc[t] \in {"goiw_94", "remote_60"} /\ pc'[t] = "insert_37"

\* C11 as claimed - freshness: a key present in the cache maps to the value
\* of the most recently completed fetch for that key; read in the state a
\* fetch for the key has just completed in, where that fetch is the most
\* recent one.
FreshnessMostRecentFetch ==
    [][\A t \in Tasks :
          (FetchCompletes(t) /\ key[t] \in DOMAIN map'[cache[t]])
            => map'[cache[t]][key[t]] = val'[t]]_vars

\* C11 - freshness, as the code has it: a key present in a kind's cache maps
\* to the whole value fetched by the get_<kind> call for that key whose
\* insert took the lock last; the entry is written by such an insert only,
\* and a fetch that completes writes nothing until its own insert runs.
FreshnessLastInsert ==
    [][/\ \A t \in Tasks :
            /\ (InsertCompletes(t) /\ op[t] \in GetOps)
                 => /\ fetches[t] = 1
                    /\ key[t] \in DOMAIN map'[cache[t]]
                    /\ map'[cache[t]][key[t]] = val[t]
            /\ FetchCompletes(t) => map' = map
       /\ \A c \in Kinds, k \in Ids :
            (k \in DOMAIN map'[c] /\ ~(Present(c, k) /\ map'[c][k] = map[c][k]))
              => \E t \in Tasks :
                    /\ InsertCompletes(t) /\ cache[t] = c /\ key[t] = k
                    /\ map'[c][k] = val[t]]_vars

\* Two get_<kind> calls for one id have fetched different values and both
\* returned; the cache holds one of the two
FreshnessWitness ==
    \E t \in Tasks, u \in Tasks :
        /\ t # u /\ op[t] \in GetOps /\ op[u] = op[t]
        /\ pc[t] = "done" /\ pc[u] = "done" /\ key[t] = key[u]
        /\ look[t] = None /\ look[u] = None
        /\ ret[t] = Ok(val[t]) /\ ret[u] = Ok(val[u]) /\ val[t] # val[u]
        /\ Present(cache[t], key[t]) /\ map[cache[t]][key[t]] = val[t]

\* C12 - search bypasses the cache: every search_anime, search_manga and
\* search_user makes one remote call as it starts, takes no lock and reads
\* no cache, and returns what the remote source answered; none of its steps
\* changes any of the four caches.
SearchBypassesCache ==
    [][\A t \in Tasks :
          /\ (pc[t] = "idle" /\ op'[t] \in SearchOps)
               => /\ pc'[t] \in SearchPcs
                  /\ fetches'[t] = 1
                  /\ map' = map /\ lock' = lock
          /\ (op[t] \in SearchOps /\ pc[t] # "done" /\ Moves(t))
               => /\ pc[t] \in SearchPcs /\ pc'[t] = "done"
                  /\ ret'[t] \in SearchResults
                  /\ fetches'[t] = 1 /\ look'[t] = NoRet
                  /\ map' = map /\ lock' = lock]_vars

\* A search returned a page of results while an entity was cached; the cache
\* still holds that entity
SearchBypassesCacheWitness ==
    \E t \in Tasks, u \in Tasks :
        /\ op[t] \in SearchOps /\ pc[t] = "done"
        /\ ret[t] # None /\ fetches[t] = 1 /\ look[t] = NoRet
        /\ op[u] \in GetOps /\ pc[u] = "done" /\ ret[u] = Ok(val[u])
        /\ Present(cache[u], key[u]) /\ map[cache[u]][key[u]] = val[u]
        /\ \A c \in Kinds \ {cache[u]} : map[c] = EmptyMap

GetPureRead ==
    [][\A t \in Tasks :
          /\ (op'[t] = "get" /\ Moves(t))
               => /\ map' = map
                  /\ fetches'[t] = 0
                  /\ pc'[t] \in {"get_43", "get_44", "done"}
          /\ (LookupCompletes(t) /\ op[t] = "get")
               => /\ pc'[t] = "done"
                  /\ ret'[t] = IF Present(cache[t], key[t])
                                 THEN Some(map[cache[t]][key[t]]) ELSE None]_vars

\* One get returned the value of a key that is still mapped to it, another
\* returned None for a key that is still absent
GetPureReadWitness ==
    \E t \in Tasks, u \in Tasks :
        /\ op[t] = "get" /\ pc[t] = "done" /\ fetches[t] = 0
        /\ Present("cache", key[t]) /\ ret[t] = Some(map["cache"][key[t]])
        /\ op[u] = "get" /\ pc[u] = "done" /\ fetches[u] = 0
        /\ ~Present("cache", key[u]) /\ ret[u] = None

\* C15 - error collapse: for every kind, when the remote call of a
\* get_<kind>(id) fails, whatever the failure (no such id, transport error,
\* timeout), the call returns the one error InvalidId; and it returns an
\* error only when its remote call failed.
ErrorCollapse ==
    [][\A t \in Tasks :
          /\ (op[t] \in GetOps /\ pc[t] = "remote_60" /\ Moves(t)
                 /\ remote'[t] \in {Err(e) : e \in RemoteErrors})
               => (pc'[t] = "done" /\ ret'[t] = ErrInvalidId)
          /\ (op[t] \in GetOps /\ Moves(t) /\ pc'[t] = "done"
                 /\ ret'[t] \notin {Ok(v) : v \in Values})
               => /\ ret'[t] = ErrInvalidId
                  /\ remote'[t] \in {Err(e) : e \in RemoteErrors}]_vars

\* Two lookups failed for different reasons, one of them a timeout, and
\* returned the same error
ErrorCollapseWitness ==
    \E t \in Tasks, u \in Tasks :
        /\ op[t] \in GetOps /\ pc[t] = "done" /\ remote[t] = Err("Timeout")
        /\ op[u] \in GetOps /\ pc[u] = "done"
        /\ remote[u] \in {Err("NotFound"), Err("Transport")}
        /\ ret[t] = ErrInvalidId /\ ret[u] = ret[t]

\* What the documentation of escape_html lists for one character
EntityOf(c) ==
    CASE c = "&" -> EntAmp
      [] c = "<" -> EntLt
      [] c = ">" -> EntGt
      [] c = "\"" -> EntQuot
      [] c = "'" -> EntApos
      [] c = "/" -> EntSlash
      [] OTHER -> <<c>>

RECURSIVE Documented(_)
Documented(s) ==
    IF s = <<>> THEN <<>> ELSE EntityOf(Head(s)) \o Documented(Tail(s))

\* C16 - escape_html replaces each of & < > " ' / by the entity its
\* documentation lists and leaves every other character as it is; every
\* double quote of the text becomes &quot;.
EscapeHtmlDocumented ==
    escaped # NoRet => escaped = Documented(text)

\* A fetch is in flight for task t
FetchInFlight(t) == pc[t] \in {"goiw_94", "remote_60"}

CancellationSafe ==
    [][\A t \in Tasks :
          /\ (Moves(t) /\ pc'[t] = "cancelled")
               => (map' = map /\ lock' = lock)
          /\ (Moves(t) /\ op'[t] \in {"get_or_insert_with"} \cup GetOps
                 /\ pc[t] \in {"idle", "get_43", "get_44", "goiw_94", "remote_60"})
               => map' = map
          /\ FetchInFlight(t) => \A c \in CacheIds : lock[c] # t]_vars

\* A get_or_insert_with and a get_anime were both cancelled while their
\* fetches were pending, and neither key is in its cache
CancellationSafeWitness ==
    \E t \in Tasks, u \in Tasks :
        /\ op[t] = "get_or_insert_with" /\ pc[t] = "cancelled"
        /\ look[t] = None /\ fetches[t] = 1 /\ val[t] = 0
        /\ ~Present(cache[t], key[t])
        /\ op[u] = "get_anime" /\ pc[u] = "cancelled"
        /\ look[u] = None /\ fetches[u] = 1 /\ remote[u] = NoRet
        /\ ~Present(cache[u], key[u])

\* Two insert calls for one key have both completed
InsertedBoth(t, u) ==
    /\ t # u
    /\ op[t] = "insert" /\ op[u] = "insert"
    /\ pc[t] = "done" /\ pc[u] = "done"
    /\ key[t] = key[u]

\* C19 - per-key last-write-wins: when insert(k, v1) and insert(k, v2) of two
\* tasks have both completed and theirs are the latest writes of the cache,
\* k is mapped, by one entry, to the value of the insert that took the lock
\* last, which is what a get(k) reads.
LastWriteWins ==
    \A t \in Tasks, u \in Tasks :
        (InsertedBoth(t, u) /\ lastWrite \in {t, u})
          => /\ Present("cache", key[t])
             /\ Cardinality({x \in DOMAIN map["cache"] : x = key[t]}) = 1
             /\ MapGet(map["cache"], key[t]) = Some(val[lastWrite])

\* Two inserts of different values for one key have completed; the key
\* holds the value of the later one
LastWriteWinsWitness ==
    \E t \in Tasks, u \in Tasks :
        /\ InsertedBoth(t, u)
        /\ val[t] # val[u]
        /\ lastWrite = u
        /\ map["cache"][key[t]] = val[u]

\* C20 - no expiry: an id cached in a kind's cache stays cached unless an
\* insert into that cache finds it at full capacity; its entry changes only
\* in the step completing an insert of that id into that cache; every
\* get_<kind>(id) that finds it is a hit; and no search step, failed fetch
\* or insert into another kind's cache changes the cache it is in.
NoExpiry ==
    [][/\ \A c \in Kinds, k \in Ids :
            Present(c, k) =>
              /\ \/ k \in DOMAIN map'[c]
                 \/ \E t \in Tasks :
                       /\ InsertCompletes(t) /\ cache[t] = c
                       /\ MapLen(map[c]) >= capacity[c]
              /\ ~(k \in DOMAIN map'[c] /\ map'[c][k] = map[c][k])
                   => \E t \in Tasks :
                         InsertCompletes(t) /\ cache[t] = c /\ key[t] = k
       /\ \A t \in Tasks :
            /\ (LookupCompletes(t) /\ op[t] \in GetOps /\ Present(cache[t], key[t]))
                 => /\ pc'[t] = "done"
                    /\ ret'[t] = Ok(map[cache[t]][key[t]])
                    /\ fetches'[t] = 0
            /\ (Moves(t) /\ op'[t] \in SearchOps \cup {"search_char"})
                 => map' = map
            /\ (pc[t] = "remote_60" /\ pc'[t] = "done")
                 => map' = map
            /\ InsertCompletes(t)
                 => \A c \in Kinds \ {cache[t]} : map'[c] = map[c]]_vars

\* An id was cached; a lookup of it that was already under way then failed,
\* and a later get_<kind>(id) was still a hit
NoExpiryWitness ==
    \E t \in Tasks, u \in Tasks :
        /\ op[t] \in GetOps /\ pc[t] = "done"
        /\ look[t] # None /\ ret[t] = Ok(look[t][2]) /\ fetches[t] = 0
        /\ op[u] = op[t] /\ key[u] = key[t] /\ pc[u] = "done"
        /\ ret[u] = ErrInvalidId /\ fetches[u] = 1
        /\ Present(cache[t], key[t]) /\ map[cache[t]][key[t]] = look[t][2]

\* The state of a requested id in a kind's cache: Cached when it has an
\* entry; otherwise Fetching when some get_<kind> call for it has missed and
\* not yet returned, and Uncached when none has
IdState(c, k) ==
    IF Present(c, k) THEN "Cached"
    ELSE IF \E t \in Tasks :
               /\ cache[t] = c /\ key[t] = k
               /\ pc[t] \in {"remote_60", "insert_37", "insert_38"}
         THEN "Fetching"
         ELSE "Uncached"

IdStateNext(c, k) ==
    LET now == IF k \in DOMAIN map'[c] THEN "Cached"
               ELSE IF \E t \in Tasks :
                          /\ cache'[t] = c /\ key'[t] = k
                          /\ pc'[t] \in {"remote_60", "insert_37", "insert_38"}
                    THEN "Fetching"
                    ELSE "Uncached"
    IN  now

\* C21 - provenance: the state of an id moves from Uncached to Fetching,
\* and from Fetching to Cached (in the step completing the insert of a call
\* whose remote call succeeded) or back to Uncached (in the step a remote
\* call fails in); and every entry is written by a get_<kind> call of that
\* kind and id with the value the remote source returned to that call.
Provenance ==
    [][\A c \in Kinds, k \in Ids :
          /\ IdStateNext(c, k) # IdState(c, k) =>
                \/ /\ IdState(c, k) = "Uncached" /\ IdStateNext(c, k) = "Fetching"
                \/ /\ IdState(c, k) = "Fetching" /\ IdStateNext(c, k) = "Cached"
                   /\ \E t \in Tasks : InsertCompletes(t) /\ remote[t] = Ok(val[t])
                \/ /\ IdState(c, k) = "Fetching" /\ IdStateNext(c, k) = "Uncached"
                   /\ \E t \in Tasks :
                         /\ pc[t] = "remote_60" /\ pc'[t] = "done"
                         /\ ret'[t] = ErrInvalidId
          /\ (k \in DOMAIN map'[c] /\ ~(Present(c, k) /\ map'[c][k] = map[c][k]))
                => \E t \in Tasks :
                      /\ InsertCompletes(t) /\ op[t] \in GetOps
                      /\ c = KindOf(op[t]) /\ key[t] = k
                      /\ fetches[t] = 1
                      /\ remote[t] = Ok(map'[c][k])]_vars

\* An id is cached with the value the remote source returned to the call
\* that stored it, while a lookup of another kind failed and left its id
\* uncached
ProvenanceWitness ==
    \E t \in Tasks, u \in Tasks :
        /\ op[t] \in GetOps /\ pc[t] = "done" /\ look[t] = None
        /\ IdState(cache[t], key[t]) = "Cached"
        /\ remote[t] = Ok(map[cache[t]][key[t]])
        /\ op[u] \in GetOps /\ pc[u] = "done" /\ ret[u] = ErrInvalidId
        /\ IdState(cache[u], key[u]) = "Uncached"

\* C22 - clones share state: the handles of all tasks point, field by field,
\* to the same maps; so a get through one handle that follows the latest
\* write, an insert of its key through another handle, finds the inserted
\* value, and a get_anime through one handle finds what a get_anime through
\* another handle fetched and cached.
ClonesShareState ==
    /\ \A t \in Tasks, u \in Tasks :
          (arc[t] # NoHandle /\ arc[u] # NoHandle) => arc[t] = arc[u]
    /\ \A t \in Tasks : \A u \in Tasks \ {t} :
          /\ (/\ op[t] = "insert" /\ pc[t] = "done" /\ lastWrite = t
               /\ op[u] = "get" /\ pc[u] = "get_44" /\ key[u] = key[t])
                => MapGet(map[cache[u]], key[u]) = Some(val[t])
          /\ (/\ op[t] = "get_anime" /\ pc[t] = "done" /\ ret[t] = Ok(val[t])
               /\ op[u] = "get_anime" /\ pc[u] = "get_44" /\ key[u] = key[t])
                => MapGet(map[cache[u]], key[u]) # None

\* The task that was handed a clone has found, by a get and without a
\* remote call, what the other task inserted through its own handle
ClonesShareStateWitness ==
    \E t \in Tasks, u \in Tasks :
        /\ t # u /\ arc[t] = Original /\ arc[u] = Original
        /\ op[t] = "insert" /\ pc[t] = "done" /\ lastWrite = t
        /\ op[u] = "get" /\ pc[u] = "done" /\ key[u] = key[t]
        /\ ret[u] = Some(val[t]) /\ fetches[u] = 0

\* C23 - kind isolation: every step of a get_<kind>(id) call leaves the map
\* and the lock of every cache but its own kind's as they were, and its
\* lookup reads its own kind's map; so an entry of another kind under the
\* same id is never created, changed or removed by it.
KindIsolation ==
    [][\A t \in Tasks :
          /\ (Moves(t) /\ op'[t] \in GetOps)
               => /\ cache'[t] = KindOf(op'[t])
                  /\ \A c \in CacheIds \ {KindOf(op'[t])} :
                        map'[c] = map[c] /\ lock'[c] = lock[c]
          /\ (LookupCompletes(t) /\ op[t] \in GetOps)
               => look'[t] = MapGet(map[KindOf(op[t])], key[t])]_vars

\* The anime and the manga with the same id are both cached, with
\* different values
KindIsolationWitness ==
    \E t \in Tasks, u \in Tasks :
        /\ op[t] = "get_anime" /\ pc[t] = "done" /\ ret[t] = Ok(val[t])
        /\ op[u] = "get_manga" /\ pc[u] = "done" /\ ret[u] = Ok(val[u])
        /\ key[t] = key[u] /\ val[t] # val[u]
        /\ map["anime"][key[t]] = val[t]
        /\ map["manga"][key[u]] = val[u]
        /\ ~Present("user", key[t]) /\ ~Present("char", key[t])

\* C24 - linearizable return value: the value that get_or_insert_with(k, f)
\* or a successful get_<kind>(k) returns is stored under k in the cache at
\* a moment between the call and its return: either the lookup of the call
\* reads it from the map, or the insert of the call itself writes it there,
\* whatever other tasks insert, remove or fetch meanwhile.
LinearizableReturn ==
    [][\A t \in Tasks :
          (/\ Moves(t) /\ pc'[t] = "done"
           /\ op[t] \in {"get_or_insert_with"} \cup GetOps
           /\ ret'[t][1] \in {"Value", "Ok"})
            => \/ /\ pc[t] = "get_44"
                  /\ Present(cache[t], key[t])
                  /\ map[cache[t]][key[t]] = ret'[t][2]
               \/ /\ pc[t] = "insert_38"
                  /\ key[t] \in DOMAIN map'[cache[t]]
                  /\ map'[cache[t]][key[t]] = ret'[t][2]]_vars

\* A get_or_insert_with call has returned a value that another task has
\* since removed or overwritten
LinearizableReturnWitness ==
    \E t \in Tasks : \E u \in Tasks \ {t} :
        /\ op[t] = "get_or_insert_with" /\ pc[t] = "done"
        /\ op[u] \in {"remove", "insert"} /\ pc[u] = "done"
        /\ key[u] = key[t] /\ cache[u] = cache[t]
        /\ MapGet(map[cache[t]], key[t]) # Some(ret[t][2])

\* C25 - locale follows the chat: when UpdateChatLang finishes handling an
\* update, the current locale is the language stored in the row of that
\* update's chat, "pt" for a row it has just created. Stated for updates
\* handled one after another: no other update is being handled.
LocaleFollowsChat ==
    [][\A t \in Tasks :
          (op[t] = "update" /\ pc[t] \in {"lang_38", "lang_45"}
             /\ pc'[t] = "handler"
             /\ \A u \in Tasks \ {t} : pc[u] = "idle")
            => current_locale' = language_code'[chat[t]]]_vars

\* C26 - locale isolation: a handler's translate call translates to the
\* locale UpdateChatLang set for the handler's own update.
LocaleIsolation ==
    [][\A t \in Tasks :
          (op[t] = "update" /\ pc[t] = "handler" /\ pc'[t] = "done"
             /\ mwLocale[t] # "none")
            => said'[t] = mwLocale[t]]_vars

\* C27 - per-user client follows the stored token: when AuthenticateAniList
\* hands the accessor to the handlers of an update whose sender has a row,
\* its client is the one built from the anilist_token stored for that user
\* at that moment, an anonymous one if there is none. Stated for updates
\* handled one after another: no other update is being handled, and the
\* row has not changed since the middleware read it.
ClientFollowsToken ==
    [][\A t \in Tasks :
          (op[t] = "auth" /\ pc[t] \in {"auth_51", "auth_62"}
             /\ pc'[t] = "handler"
             /\ user[t] = anilist_token[sender[t]]
             /\ \A u \in Tasks \ {t} : pc[u] = "idle")
            => ani_client'[t] = ClientFor(anilist_token[sender[t]])]_vars

\* C28 - cache hits ignore the caller's identity: whatever client the
\* accessor carries, a get_anime(id) that finds the id cached returns the
\* cached entity with no remote call and no change of the caches; and no
\* step of AuthenticateAniList changes the entity caches or the maps the
\* accessor's fields point to.
HitsIgnoreIdentity ==
    [][\A t \in Tasks :
          /\ (LookupCompletes(t) /\ op[t] = "get_anime"
                 /\ Present("anime", key[t]))
               => /\ ret'[t] = Ok(map["anime"][key[t]])
                  /\ fetches'[t] = 0
                  /\ map' = map
          /\ (Moves(t) /\ op[t] = "auth" /\ pc[t] # "handler")
               => map' = map /\ arc' = arc /\ arc[t] = Original]_vars

\* An anime fetched and cached through an accessor carrying one client has
\* been returned from the cache, with no remote call, through an accessor
\* carrying another client
HitsIgnoreIdentityWitness ==
    \E t \in Tasks : \E u \in Tasks \ {t} :
        /\ op[u] = "get_anime" /\ pc[u] = "done" /\ fetches[u] = 1
        /\ op[t] = "get_anime" /\ pc[t] = "done" /\ fetches[t] = 0
        /\ key[t] = key[u]
        /\ ret[u] = Ok(val[u]) /\ ret[t] = ret[u]
        /\ ani_client[u] \in Tokens
        /\ ani_client[t] \in (Tokens \cup {Anonymous}) \ {ani_client[u]}

\* What a handler that only answers with the not_allowed alert does in a
\* step of task t: it waits for the alert to be sent or has sent it, and
\* has read no cache, called no remote source, changed no cache and edited
\* no message
OnlyAlert(t) ==
    /\ op'[t] = "callback"
    /\ pc'[t] \in {"alert_77", "done"}
    /\ pc'[t] = "done" => alert'[t]
    /\ ~edited'[t]
    /\ look'[t] = NoRet /\ fetches'[t] = 0 /\ remote'[t] = NoRet
    /\ map' = map /\ lock' = lock

\* C29 as stated - callback ownership by the last argument: when the user
\* who presses is not the id written as the last argument of the callback
\* data, the handler only answers with the not_allowed alert.
CallbackOwnershipLastArg ==
    [][\A t \in Tasks :
          (Moves(t) /\ data'[t] # <<>> /\ presser'[t] # LastArg(data'[t]))
            => OnlyAlert(t)]_vars

\* C29 - callback ownership: when the user who presses is not the sender id
\* written in the callback data - its last argument on the anime and
\* character routes, its third argument on the anime-info route, where a
\* page may follow - the handler only answers with the not_allowed alert:
\* no cache read, no remote call, no cache insert, no message edit.
CallbackOwnership ==
    [][\A t \in Tasks :
          (Moves(t) /\ data'[t] # <<>> /\ presser'[t] # SenderIdOf(data'[t]))
            => OnlyAlert(t)]_vars

\* A user other than the one in the data has pressed a button of each
\* kind of route and got the alert, while the owner of a button got its
\* message edited
CallbackOwnershipWitness ==
    \E t \in Tasks : \E u \in Tasks \ {t} :
        /\ data[t] # <<>> /\ presser[t] # SenderIdOf(data[t])
        /\ pc[t] = "done" /\ alert[t]
        /\ data[u] # <<>> /\ presser[u] = SenderIdOf(data[u])
        /\ pc[u] = "answered" /\ edited[u] /\ ~alert[u]

\* The buttons of the window around page p, in ascending order
WindowLow(p) == IF p - 2 > 1 THEN p - 2 ELSE 1
WindowHigh(p, mp) == IF mp < p + 2 THEN mp ELSE p + 2
Window(cb, p, mp) ==
    IF WindowHigh(p, mp) < WindowLow(p) THEN <<>>
    ELSE [n \in 1..(WindowHigh(p, mp) - WindowLow(p) + 1) |->
            Inline(cb, WindowLow(p) + n - 1, p)]

\* C30 - pagination window: a call of gen_pagination_buttons never panics,
\* page 0 and page 1 included, and for page >= 1 it returns exactly the
\* buttons of the pages i with max(1, page - 2) <= i <= min(max_pages,
\* page + 2), in ascending order, each with data "<callback> i" and the
\* label of a previous, next or current page.
PaginationWindow ==
    buttons # NoRet =>
        /\ buttons # Panic
        /\ page >= 1 => buttons = Ok(Window(callback, page, max_pages))
        /\ \A n \in 1..Len(buttons[2]) :
              \E i \in 1..max_pages :
                 /\ buttons[2][n].data = callback \o <<" ">> \o Decimal(i)
                 /\ buttons[2][n].text[1] =
                       (IF i < page THEN ArrowLeft
                        ELSE IF i > page THEN Decimal(i)[1] ELSE Dot)

\* Calls that returned a full window of five buttons around a page of two
\* digits, a window cut at the first page, and the buttons of page 0
PaginationWindowWitness ==
    /\ buttons # NoRet
    /\ \/ page = 10 /\ Len(buttons[2]) = 5
       \/ page = 1 /\ max_pages >= 3 /\ Len(buttons[2]) = 3
       \/ page = 0 /\ max_pages >= 2 /\ Len(buttons[2]) = 2
====
